---- MODULE Spec2Model ----
(***************************************************************************)
(* A model of the VGA text-mode driver of src/src/vga_buffer.rs: the       *)
(* packed colour byte, the 25 x 80 grid of ScreenChar at 0xb8000, the      *)
(* Writer (write_byte, write_string, new_line, clear_row) and the          *)
(* lazily initialised, spin-locked WRITER singleton behind _print.         *)
(***************************************************************************)
EXTENDS Integers, Sequences, FiniteSets

(* ------------------------------------------------------------------ *)
(* Program constants                                                    *)
(* ------------------------------------------------------------------ *)
BUFFER_HEIGHT == 25
BUFFER_WIDTH == 80

Black == 0
Yellow == 14
\* enum Color, #[repr(u8)]: the sixteen codes Black = 0 .. White = 15
Color == 0..15

LF == 10
SPACE == 32
PRINTABLE_LO == 32
PRINTABLE_HI == 126
PLACEHOLDER == 254

U8 == 256

(* ------------------------------------------------------------------ *)
(* Bounds of the model                                                  *)
(* ------------------------------------------------------------------ *)
\* flows that may call a print entry point concurrently (Spec)
NumFlows == 2
\* calls of an entry point in one behaviour of Spec
MaxCalls == 3
\* calls of an entry point in one behaviour of SpecWriter
MaxWriterCalls == 3

\* calls of an entry point in one behaviour of SpecColumns
MaxColumnCalls == 2

\* calls of print in one behaviour of SpecPrints
MaxPrintCalls == 2

\* calls of an entry point in one behaviour of SpecMany
MaxManyCalls == 26

Flows == 1..NumFlows

Rows == 0..(BUFFER_HEIGHT - 1)
Cols == 0..(BUFFER_WIDTH - 1)

VARIABLES
    once,         \* state of the lazy_static Once: "incomplete", "running", "complete"
    locked,       \* the spin::Mutex flag of WRITER
    writer,       \* the Writer behind the mutex, with the grid it points at
    pc,           \* pc[p]: where flow p is inside its call
    msg,          \* msg[p]: bytes flow p has still to emit
    raw,          \* raw[p]: the call is WRITER.lock().write_byte(b), not _print
    calls,        \* entry-point calls started so far
    fmt_result,   \* fmt_result[p]: what write_fmt has to return to flow p's _print
    last,         \* history: the latest byte handed to the Writer (the n-th), and by whom
    lines,        \* history: input bytes since initialisation, split at line feeds
    starts,       \* history: starts[i] is writer.new_line_calls when lines[i] began
    foreground,   \* arguments of ColorCode::new (SpecColor)
    background,
    packed        \* result of ColorCode::new (SpecColor): <<>> until it has returned

vars == <<once, locked, writer, pc, msg, raw, calls, fmt_result, last, lines,
          starts, foreground, background, packed>>

\* a field that holds nothing yet: outside the range of every u8 and usize
NoValue == -1

(* ------------------------------------------------------------------ *)
(* ColorCode and ScreenChar                                             *)
(* ------------------------------------------------------------------ *)
\* u8 << 4: bits shifted past bit 7 are lost
Shl4 == [x \in 0..(U8 - 1) |-> (x * 16) % U8]

\* bitwise | of two bytes, bit by bit
RECURSIVE BitOr(_, _)
BitOr(a, b) ==
    IF a = 0 THEN b
    ELSE IF b = 0 THEN a
    ELSE (IF a % 2 = 1 \/ b % 2 = 1 THEN 1 ELSE 0) + 2 * BitOr(a \div 2, b \div 2)

\* variant: the two colours exchanged
ColorCode_new_swapped(fg, bg) == BitOr(Shl4[fg], bg)

\* ColorCode((background as u8) << 4 | (foreground as u8))
ColorCode_new(fg, bg) == BitOr(Shl4[bg], fg)

ScreenChar(byte, cc) == [ascii_character |-> byte, color_code |-> cc]

(* ------------------------------------------------------------------ *)
(* Writer                                                               *)
(* The record w carries the fields of Writer (column_position,          *)
(* color_code, and chars for *buffer), whether an index check has       *)
(* panicked, and two history fields: new_line_calls counts the calls of *)
(* new_line, placed is the index of the cell the latest write_byte      *)
(* stored its byte in (<<>> when it stored none).                       *)
(* ------------------------------------------------------------------ *)
InBounds(row, col) == row \in Rows /\ col \in Cols

\* variant: the loop stops one column short
clear_row_short(w, row) ==
    IF row \notin Rows
    THEN [w EXCEPT !.panicked = TRUE]
    ELSE [w EXCEPT !.chars[row] =
              [col \in Cols |-> IF col < BUFFER_WIDTH - 1
                                THEN ScreenChar(SPACE, w.color_code)
                                ELSE w.chars[row][col]]]

\* variant: a cleared row gets the light gray on black attribute
clear_row_gray(w, row) ==
    IF row \notin Rows
    THEN [w EXCEPT !.panicked = TRUE]
    ELSE [w EXCEPT !.chars[row] =
              [col \in Cols |-> ScreenChar(SPACE, ColorCode_new(7, Black))]]

\* blank is built once from color_code, then
\* chars[row][col].write(blank) for col in 0..BUFFER_WIDTH
clear_row(w, row) ==
    IF row \notin Rows
    THEN [w EXCEPT !.panicked = TRUE]
    ELSE CHOOSE result \in
             {[w EXCEPT !.chars[row] = [col \in Cols |-> blank]] :
                  blank \in {ScreenChar(SPACE, w.color_code)}} : TRUE

\* variant: each row is copied from the row above it instead of the row below
RECURSIVE shift_rows_down(_, _)
shift_rows_down(chars, row) ==
    IF row >= BUFFER_HEIGHT THEN chars
    ELSE shift_rows_down([chars EXCEPT ![row] = [col \in Cols |-> chars[row - 1][col]]],
                         row + 1)

\* variant: the loop starts at row 2, the top row is never overwritten
RECURSIVE shift_rows_skips_top(_, _)
shift_rows_skips_top(chars, row) ==
    IF row >= BUFFER_HEIGHT THEN chars
    ELSE IF row < 2 THEN shift_rows_skips_top(chars, 2)
    ELSE CHOOSE result \in
             {shift_rows_skips_top(copied, row + 1) :
                  copied \in {[chars EXCEPT ![row - 1] = chars[row]]}} : TRUE

\* for row in 1..BUFFER_HEIGHT: every cell of row is read and stored in row - 1,
\* one row after the other on the same buffer (copied is the buffer once the
\* row has been stored, on which the next iteration works)
RECURSIVE shift_rows(_, _)
shift_rows(chars, row) ==
    IF row >= BUFFER_HEIGHT THEN chars
    ELSE CHOOSE result \in
             {shift_rows(copied, row + 1) :
                  copied \in {[chars EXCEPT ![row - 1] =
                                   [col \in Cols |-> chars[row][col]]]}} : TRUE

\* variant: column_position is not reset
new_line_keeps_column(w) ==
    [clear_row([w EXCEPT !.chars = shift_rows(w.chars, 1)], BUFFER_HEIGHT - 1)
        EXCEPT !.new_line_calls = @ + 1]

new_line(w) ==
    [clear_row([w EXCEPT !.chars = shift_rows(w.chars, 1)], BUFFER_HEIGHT - 1)
        EXCEPT !.column_position = 0,
               !.new_line_calls = @ + 1]

\* the non-line-feed arm after its wrap check: index, store, advance
place(w, byte) ==
    IF ~InBounds(BUFFER_HEIGHT - 1, w.column_position)
    THEN [w EXCEPT !.panicked = TRUE,
                   !.placed = <<BUFFER_HEIGHT - 1, w.column_position>>]
    ELSE [w EXCEPT !.chars[BUFFER_HEIGHT - 1][w.column_position] =
                       ScreenChar(byte, w.color_code),
                   !.placed = <<BUFFER_HEIGHT - 1, w.column_position>>,
                   !.column_position = @ + 1]

\* variant: the wrap check runs before the match on the byte
write_byte_checks_first(w, byte) ==
    IF w.column_position >= BUFFER_WIDTH
    THEN IF byte = LF
         THEN new_line(new_line([w EXCEPT !.placed = <<>>]))
         ELSE place(new_line([w EXCEPT !.placed = <<>>]), byte)
    ELSE IF byte = LF
         THEN new_line([w EXCEPT !.placed = <<>>])
         ELSE place([w EXCEPT !.placed = <<>>], byte)

\* variant: the row is wrapped as soon as its last column is filled
write_byte_wraps_early(w, byte) ==
    IF byte = LF
    THEN new_line([w EXCEPT !.placed = <<>>])
    ELSE IF w.column_position + 1 >= BUFFER_WIDTH
         THEN [new_line(place([w EXCEPT !.placed = <<>>], byte))
                  EXCEPT !.placed = <<BUFFER_HEIGHT - 1, w.column_position>>]
         ELSE place([w EXCEPT !.placed = <<>>], byte)

\* variant: the wrap check is > instead of >=
write_byte_wraps_late(w, byte) ==
    IF byte = LF
    THEN new_line([w EXCEPT !.placed = <<>>])
    ELSE IF w.column_position > BUFFER_WIDTH
         THEN place(new_line([w EXCEPT !.placed = <<>>]), byte)
         ELSE place([w EXCEPT !.placed = <<>>], byte)

write_byte(w, byte) ==
    IF byte = LF
    THEN new_line([w EXCEPT !.placed = <<>>])
    ELSE IF w.column_position >= BUFFER_WIDTH
         THEN place(new_line([w EXCEPT !.placed = <<>>]), byte)
         ELSE place([w EXCEPT !.placed = <<>>], byte)

\* variant: the printable range excludes its upper end
write_string_byte_exclusive(w, byte) ==
    IF byte \in PRINTABLE_LO..(PRINTABLE_HI - 1) \/ byte = LF
    THEN write_byte(w, byte)
    ELSE write_byte(w, PLACEHOLDER)

\* variant: every byte is passed on as it is
write_string_byte_unfiltered(w, byte) == write_byte(w, byte)

\* one iteration of write_string's loop over s.bytes()
write_string_byte(w, byte) ==
    IF byte \in PRINTABLE_LO..PRINTABLE_HI \/ byte = LF
    THEN write_byte(w, byte)
    ELSE write_byte(w, PLACEHOLDER)

RECURSIVE write_string(_, _)
write_string(w, s) ==
    IF s = <<>> THEN w
    ELSE CHOOSE result \in
             {write_string(written, Tail(s)) :
                  written \in {write_string_byte(w, Head(s))}} : TRUE

\* variant: every string ends its line
write_str_ends_line(w, s) ==
    [writer |-> new_line(write_string(w, s)), result |-> "Ok"]

\* variant: a string with a byte that has no glyph is refused
write_str_rejects(w, s) ==
    [writer |-> write_string(w, s),
     result |-> IF \A i \in 1..Len(s) :
                      s[i] \in PRINTABLE_LO..PRINTABLE_HI \/ s[i] = LF
                THEN "Ok" ELSE "Err"]

\* impl Write for Writer: write_string(s), then Ok(())
write_str(w, s) == [writer |-> write_string(w, s), result |-> "Ok"]

(* ------------------------------------------------------------------ *)
(* What the memory at 0xb8000 may hold before the driver first runs     *)
(* ------------------------------------------------------------------ *)
\* arbitrary leftover contents, every row different from every other
Leftover == [row \in Rows |-> [col \in Cols |->
                ScreenChar((row * BUFFER_WIDTH + col) % U8, (7 * row + col) % U8)]]

\* as Leftover, with a top row of blanks in the driver's own colour
LeftoverBlankTop == [Leftover EXCEPT ![0] =
                        [col \in Cols |-> ScreenChar(SPACE, ColorCode_new(Yellow, Black))]]

InitGrids == {Leftover, LeftoverBlankTop}

(* ------------------------------------------------------------------ *)
(* Inputs                                                               *)
(* ------------------------------------------------------------------ *)
\* "HELLO\n"
HELLO_LF == <<72, 69, 76, 76, 79, 10>>
\* "WORLD"
WORLD == <<87, 79, 82, 76, 68>>
\* a full row of BUFFER_WIDTH different printable bytes: "~", " ", "!", ...
FullRow == [i \in 1..BUFFER_WIDTH |->
               IF i = 1 THEN PRINTABLE_HI ELSE PRINTABLE_LO + (i - 2)]
\* "e-acute, tab, DEL, NUL": bytes outside the printable range
Unprintable == <<195, 169, 9, 127, 0>>
\* println!()
JustLF == <<10>>

WriterMsgs == {HELLO_LF, WORLD, FullRow, Unprintable, JustLF}
\* bytes handed straight to the public write_byte
RawBytes == {10, 65, 128}

\* the first k bytes of FullRow: a printable line that ends at column k
LineOfLength(k) == SubSeq(FullRow, 1, k)
\* what follows such a line
FollowUps == {JustLF, WORLD}

\* println!("test_println_many output")
TestLine_LF == <<116, 101, 115, 116, 95, 112, 114, 105, 110, 116, 108, 110, 95, 109, 97, 110, 121, 32, 111, 117, 116, 112, 117, 116, 10>>
\* a message longer than the whole grid, with line feeds and bytes that have
\* no glyph in it
Huge == [i \in 1..(BUFFER_HEIGHT * BUFFER_WIDTH + 1) |->
            IF i % 83 = 0 THEN LF
            ELSE IF i % 89 = 0 THEN 195
            ELSE PRINTABLE_LO + (i % 95)]
\* what the first call of a long run prints
FirstMsgs == {HELLO_LF, TestLine_LF, Huge}

\* messages of the concurrent flows: "OK\n" and "hi"
FlowMsgs == {<<79, 75, 10>>, <<104, 105>>}

(* ------------------------------------------------------------------ *)
(* Initial state                                                        *)
(* ------------------------------------------------------------------ *)
InitCommon ==
    /\ once = "incomplete"
    /\ locked = FALSE
    /\ pc = [p \in Flows |-> "idle"]
    /\ msg = [p \in Flows |-> <<>>]
    /\ raw = [p \in Flows |-> FALSE]
    /\ calls = 0
    /\ fmt_result = [p \in Flows |-> "Ok"]
    /\ last = [n |-> 0, flow |-> 0, byte |-> NoValue, raw |-> FALSE]
    /\ lines = << <<>> >>
    /\ starts = <<0>>

UninitWriter(grid) ==
    [column_position |-> NoValue, color_code |-> NoValue, chars |-> grid,
     panicked |-> FALSE, new_line_calls |-> 0, placed |-> <<>>]

Init ==
    /\ InitCommon
    /\ writer \in {UninitWriter(g) : g \in InitGrids}
    /\ foreground = Yellow
    /\ background = Black
    /\ packed = <<>>

(* ------------------------------------------------------------------ *)
(* The entry points, step by step                                       *)
(* ------------------------------------------------------------------ *)
ColorUnchanged == UNCHANGED <<foreground, background, packed>>
HistUnchanged == UNCHANGED <<last, lines, starts>>

\* print!/println! -> _print(args): the formatted message is m
CallPrint(p, m) ==
    /\ pc[p] = "idle"
    /\ pc' = [pc EXCEPT ![p] = "deref"]
    /\ msg' = [msg EXCEPT ![p] = m]
    /\ raw' = [raw EXCEPT ![p] = FALSE]
    /\ calls' = calls + 1
    /\ UNCHANGED <<once, locked, writer>>
    /\ UNCHANGED fmt_result
    /\ HistUnchanged /\ ColorUnchanged

\* WRITER.lock().write_byte(b)
CallWriteByte(p, b) ==
    /\ pc[p] = "idle"
    /\ pc' = [pc EXCEPT ![p] = "deref"]
    /\ msg' = [msg EXCEPT ![p] = <<b>>]
    /\ raw' = [raw EXCEPT ![p] = TRUE]
    /\ calls' = calls + 1
    /\ UNCHANGED <<once, locked, writer>>
    /\ UNCHANGED fmt_result
    /\ HistUnchanged /\ ColorUnchanged

\* variant: every flow that finds WRITER not yet initialised runs the initialiser
Deref_unguarded(p) ==
    /\ pc[p] = "deref"
    /\ IF once # "complete"
       THEN once' = "running" /\ pc' = [pc EXCEPT ![p] = "init"]
       ELSE once' = once /\ pc' = [pc EXCEPT ![p] = "lock"]
    /\ UNCHANGED <<locked, writer, msg, raw, calls>>
    /\ UNCHANGED fmt_result
    /\ HistUnchanged /\ ColorUnchanged

\* dereferencing WRITER: the first flow runs the initialiser, a flow that
\* finds it running waits, and afterwards the value is used as it is
Deref(p) ==
    /\ pc[p] = "deref"
    /\ once # "running"
    /\ IF once = "incomplete"
       THEN once' = "running" /\ pc' = [pc EXCEPT ![p] = "init"]
       ELSE once' = once /\ pc' = [pc EXCEPT ![p] = "lock"]
    /\ UNCHANGED <<locked, writer, msg, raw, calls>>
    /\ UNCHANGED fmt_result
    /\ HistUnchanged /\ ColorUnchanged

\* Mutex::new(Writer { column_position: 0, color_code: ..., buffer: 0xb8000 })
LazyInit(p) ==
    /\ pc[p] = "init"
    /\ once' = "complete"
    /\ pc' = [pc EXCEPT ![p] = "lock"]
    /\ writer' = [writer EXCEPT !.column_position = 0,
                                !.color_code = ColorCode_new(Yellow, Black)]
    /\ locked' = FALSE
    /\ UNCHANGED <<msg, raw, calls>>
    /\ UNCHANGED fmt_result
    /\ HistUnchanged /\ ColorUnchanged

\* variant: the lock is taken whatever its flag says
TryLock_unconditional(p) == pc[p] = "lock"

\* spin::Mutex::lock: the compare-exchange succeeds only on a free lock
TryLock(p) ==
    /\ pc[p] = "lock"
    /\ ~locked

Lock(p) ==
    /\ TryLock(p)
    /\ locked' = TRUE
    /\ pc' = [pc EXCEPT ![p] = "write"]
    /\ UNCHANGED <<once, writer, msg, raw, calls>>
    /\ UNCHANGED fmt_result
    /\ HistUnchanged /\ ColorUnchanged

\* the Writer's step on the next byte of the message: write_byte itself, or
\* write_fmt handing the byte to write_str
Emit(w, byte, direct) ==
    IF direct
    THEN [writer |-> write_byte(w, byte), result |-> "Ok"]
    ELSE write_str(w, <<byte>>)

WriteStep(p) ==
    /\ pc[p] = "write"
    /\ msg[p] # <<>>
    /\ ~writer.panicked
    /\ fmt_result[p] = "Ok"
    /\ writer' = Emit(writer, Head(msg[p]), raw[p]).writer
    /\ fmt_result' = [fmt_result EXCEPT ![p] = Emit(writer, Head(msg[p]), raw[p]).result]
    /\ msg' = [msg EXCEPT ![p] = Tail(@)]
    /\ last' = [n |-> last.n + 1, flow |-> p, byte |-> Head(msg[p]), raw |-> raw[p]]
    /\ lines' = IF Head(msg[p]) = LF
                THEN Append(lines, <<>>)
                ELSE [lines EXCEPT ![Len(lines)] = Append(@, Head(msg[p]))]
    /\ starts' = IF Head(msg[p]) = LF
                 THEN Append(starts, writer'.new_line_calls)
                 ELSE starts
    /\ UNCHANGED <<once, locked, pc, raw, calls>>
    /\ ColorUnchanged

\* variant: the guard is leaked, the call returns with the lock still held
Unlock_keeps_lock(p) ==
    /\ pc[p] = "write"
    /\ msg[p] = <<>> \/ fmt_result[p] # "Ok"
    /\ locked' = locked
    /\ pc' = [pc EXCEPT ![p] = IF fmt_result[p] = "Ok" THEN "idle" ELSE "panic"]
    /\ UNCHANGED <<once, writer, msg, raw, calls>>
    /\ UNCHANGED fmt_result
    /\ HistUnchanged /\ ColorUnchanged

\* write_fmt returns when the message is out or a write_str has failed;
\* unwrap() panics on Err, and otherwise the MutexGuard is dropped as the
\* statement ends
Unlock(p) ==
    /\ pc[p] = "write"
    /\ msg[p] = <<>> \/ fmt_result[p] # "Ok"
    /\ IF fmt_result[p] = "Ok"
       THEN locked' = FALSE /\ pc' = [pc EXCEPT ![p] = "idle"]
       ELSE locked' = locked /\ pc' = [pc EXCEPT ![p] = "panic"]
    /\ UNCHANGED <<once, writer, msg, raw, calls>>
    /\ UNCHANGED fmt_result
    /\ HistUnchanged /\ ColorUnchanged

(* ------------------------------------------------------------------ *)
(* Spec: any number of flows printing concurrently                      *)
(* ------------------------------------------------------------------ *)
Next ==
    \/ \E p \in Flows, m \in FlowMsgs : calls < MaxCalls /\ CallPrint(p, m)
    \/ \E p \in Flows : Deref(p)
    \/ \E p \in Flows : LazyInit(p)
    \/ \E p \in Flows : Lock(p)
    \/ \E p \in Flows : WriteStep(p)
    \/ \E p \in Flows : Unlock(p)

Spec == Init /\ [][Next]_vars

(* ------------------------------------------------------------------ *)
(* SpecIrq: one processor, flows that interrupt one another. Flow q     *)
(* interrupts the flows below it at any point: a flow runs only while   *)
(* no flow above it is inside a call, and resumes when they have        *)
(* returned. A flow that finds the lock taken spins in lock().          *)
(* ------------------------------------------------------------------ *)
Runs(p) == \A q \in Flows : q > p => pc[q] = "idle"

NextIrq ==
    \/ \E p \in Flows, m \in FlowMsgs :
           calls < MaxCalls /\ Runs(p) /\ CallPrint(p, m)
    \/ \E p \in Flows : Runs(p) /\ Deref(p)
    \/ \E p \in Flows : Runs(p) /\ LazyInit(p)
    \/ \E p \in Flows : Runs(p) /\ Lock(p)
    \/ \E p \in Flows : Runs(p) /\ WriteStep(p)
    \/ \E p \in Flows : Runs(p) /\ Unlock(p)

SpecIrq == Init /\ [][NextIrq]_vars

(* SpecIrqFair: the processor keeps executing the flow that runs. A flow *)
(* inside a call takes its next step unless that step is a spin on a     *)
(* lock or an initialiser that is not released. A call is never owed.    *)
FlowStep(p) ==
    \/ Deref(p)
    \/ LazyInit(p)
    \/ Lock(p)
    \/ WriteStep(p)
    \/ Unlock(p)

\* every step of a flow moves its position or consumes a byte of its message
position == <<pc, msg>>

SpecIrqFair ==
    /\ Init
    /\ [][NextIrq]_vars
    /\ \A p \in Flows : WF_position(Runs(p) /\ FlowStep(p))

(* ------------------------------------------------------------------ *)
(* SpecWriter: one flow, a sequence of print and write_byte calls       *)
(* ------------------------------------------------------------------ *)
NextWriter ==
    \/ \E m \in WriterMsgs : calls < MaxWriterCalls /\ CallPrint(1, m)
    \/ \E b \in RawBytes : calls < MaxWriterCalls /\ CallWriteByte(1, b)
    \/ Deref(1)
    \/ LazyInit(1)
    \/ Lock(1)
    \/ WriteStep(1)
    \/ Unlock(1)

SpecWriter == Init /\ [][NextWriter]_vars

(* ------------------------------------------------------------------ *)
(* SpecColumns: one flow prints a line that ends at any column          *)
(* 0..BUFFER_WIDTH, then calls print or write_byte again                *)
(* ------------------------------------------------------------------ *)
NextColumns ==
    \/ \E k \in 0..BUFFER_WIDTH : calls = 0 /\ CallPrint(1, LineOfLength(k))
    \/ \E m \in FollowUps :
           calls >= 1 /\ calls < MaxColumnCalls /\ CallPrint(1, m)
    \/ \E b \in RawBytes :
           calls >= 1 /\ calls < MaxColumnCalls /\ CallWriteByte(1, b)
    \/ Deref(1)
    \/ LazyInit(1)
    \/ Lock(1)
    \/ WriteStep(1)
    \/ Unlock(1)

SpecColumns == Init /\ [][NextColumns]_vars

(* ------------------------------------------------------------------ *)
(* SpecPrints: one flow, a sequence of print calls only. write_fmt      *)
(* hands a message to write_str in pieces; WriteStep is the smallest    *)
(* piece, one byte.                                                     *)
(* ------------------------------------------------------------------ *)
NextPrints ==
    \/ \E m \in WriterMsgs : calls < MaxPrintCalls /\ CallPrint(1, m)
    \/ Deref(1)
    \/ LazyInit(1)
    \/ Lock(1)
    \/ WriteStep(1)
    \/ Unlock(1)

SpecPrints == Init /\ [][NextPrints]_vars

(* ------------------------------------------------------------------ *)
(* SpecMany: one flow prints a first message and then the same line     *)
(* over and over, as test_println_many does                             *)
(* ------------------------------------------------------------------ *)
NextMany ==
    \/ \E m \in FirstMsgs : calls = 0 /\ CallPrint(1, m)
    \/ calls >= 1 /\ calls < MaxManyCalls /\ CallPrint(1, TestLine_LF)
    \/ Deref(1)
    \/ LazyInit(1)
    \/ Lock(1)
    \/ WriteStep(1)
    \/ Unlock(1)

SpecMany == Init /\ [][NextMany]_vars

(* ------------------------------------------------------------------ *)
(* SpecColor: ColorCode::new on every pair of colours                   *)
(* ------------------------------------------------------------------ *)
InitColor ==
    /\ InitCommon
    /\ writer = UninitWriter(Leftover)
    /\ foreground \in Color
    /\ background \in Color
    /\ packed = <<>>

ApplyColorCodeNew ==
    /\ packed = <<>>
    /\ packed' = <<ColorCode_new(foreground, background)>>
    /\ UNCHANGED <<once, locked, writer, pc, msg, raw, calls, fmt_result, last,
                   lines, starts, foreground, background>>

NextColor == ApplyColorCodeNew

SpecColor == InitColor /\ [][NextColor]_vars

(* ------------------------------------------------------------------ *)
(* Properties                                                           *)
(* ------------------------------------------------------------------ *)
Initialised == once = "complete"
LastRow == BUFFER_HEIGHT - 1
CurLine == lines[Len(lines)]
Printable(b) == b \in PRINTABLE_LO..PRINTABLE_HI
AllPrintable(s) == \A i \in 1..Len(s) : Printable(s[i])
\* calls of new_line since the current line began
ScrollsInLine == writer.new_line_calls - starts[Len(starts)]
BlankRow(cc) == [col \in Cols |-> ScreenChar(SPACE, cc)]
\* a grid moved up by one row over a blank last row
Scrolled(chars, cc) ==
    [row \in Rows |-> IF row < LastRow THEN chars[row + 1] ELSE BlankRow(cc)]
\* the step hands one byte to the Writer
ByteStep == last'.n # last.n
\* the step calls new_line
ScrollStep == writer'.new_line_calls # writer.new_line_calls
Holders == {p \in Flows : pc[p] = "write"}

(* C1: at most one flow holds the WRITER lock at any time, and every     *)
(* change of a grid cell or of the Writer's column_position or           *)
(* color_code is a byte written by the one flow that holds the lock.     *)
C1_OneHolder == Cardinality(Holders) <= 1 /\ (Holders # {} => locked)

C1_ExclusiveAccess ==
    /\ C1_OneHolder
    /\ [][ /\ C1_OneHolder'
           /\ ( \/ writer'.chars # writer.chars
                \/ /\ Initialised
                   /\ \/ writer'.column_position # writer.column_position
                      \/ writer'.color_code # writer.color_code )
              => /\ ByteStep
                 /\ locked
                 /\ Holders = {last'.flow}
                 /\ Holders' = Holders ]_vars

\* one flow has written a byte under the lock while another spins on it
C1_Contended ==
    \E p, q \in Flows :
        /\ p # q
        /\ pc[p] = "write"
        /\ pc[q] = "lock"
        /\ last.flow = p

(* C2 (as amended): after a scroll the last row is blank in the current  *)
(* colour (but for the byte the same write_byte then stores in it),      *)
(* every row 0..23 holds what the row below it held, row 0's previous    *)
(* content is in none of the rows 0..23 unless another row duplicated    *)
(* it, and the new last row equals it only if it was itself a row of     *)
(* blanks in the current colour.                                         *)
C2_ShiftAndBlank ==
    /\ \A col \in Cols :
           \/ writer'.placed = <<LastRow, col>>
           \/ writer'.chars[LastRow][col] = ScreenChar(SPACE, writer'.color_code)
    /\ \A row \in 0..(LastRow - 1) : \A col \in Cols :
           writer'.chars[row][col] = writer.chars[row + 1][col]

C2_Scroll ==
    [][ ScrollStep =>
          /\ C2_ShiftAndBlank
          /\ \A row \in 0..(LastRow - 1) :
                 writer'.chars[row] = writer.chars[0]
                     => \E other \in 1..LastRow : writer.chars[other] = writer.chars[0]
          /\ (writer'.placed = <<>> /\ writer'.chars[LastRow] = writer.chars[0])
                 => writer.chars[0] = BlankRow(writer.color_code) ]_vars

\* a scroll has moved the second row of the leftover screen to the top
C2_Scrolled ==
    /\ writer.new_line_calls = 1
    /\ writer.placed = <<>>
    /\ writer.chars[0] = Leftover[1]
    /\ writer.chars[LastRow] = BlankRow(ColorCode_new(Yellow, Black))

(* C2 as stated: after a scroll the last row is blank, every other row   *)
(* equals the row below it before the scroll, and row 0's previous       *)
(* content is in no row at all unless another row duplicated it.         *)
C2_Row0GoneEverywhere ==
    [][ (ScrollStep /\ writer'.placed = <<>>) =>
          /\ C2_ShiftAndBlank
          /\ \A row \in Rows :
                 writer'.chars[row] = writer.chars[0]
                     => \E other \in 1..LastRow : writer.chars[other] = writer.chars[0]
      ]_vars

(* C3: write_byte of the line-feed byte sets column_position to 0 and    *)
(* calls new_line exactly once whatever the column was (every column     *)
(* 0..BUFFER_WIDTH under SpecColumns), the column BUFFER_WIDTH of a full *)
(* row included; it stores no byte, so no cell comes to hold a line      *)
(* feed.                                                                 *)
C3_LineFeed ==
    [][ (ByteStep /\ last'.byte = LF) =>
          /\ writer'.column_position = 0
          /\ writer'.new_line_calls = writer.new_line_calls + 1
          /\ writer'.placed = <<>>
          /\ writer'.chars = Scrolled(writer.chars, writer.color_code)
          /\ \A row \in Rows : \A col \in Cols :
                 writer'.chars[row][col].ascii_character = LF
                     => /\ row < LastRow
                        /\ writer.chars[row + 1][col].ascii_character = LF ]_vars

\* a line of exactly BUFFER_WIDTH bytes has just been ended by a line feed,
\* with one scroll from its first byte to its end
C3_FullLineThenLF ==
    /\ last.n > 0
    /\ last.byte = LF
    /\ Len(lines) >= 2
    /\ Len(lines[Len(lines) - 1]) = BUFFER_WIDTH
    /\ starts[Len(starts)] - starts[Len(starts) - 1] = 1
    /\ writer.column_position = 0

(* C4: from column 0, BUFFER_WIDTH printable bytes cause no scroll, and  *)
(* one more printable byte causes exactly one: the extra byte is then at *)
(* column 0 of the last row, column_position is 1, and the first         *)
(* BUFFER_WIDTH bytes fill the second-to-last row in order.              *)
C4_WrapOnExtraByte ==
    (Initialised /\ AllPrintable(CurLine)) =>
        /\ Len(CurLine) <= BUFFER_WIDTH => ScrollsInLine = 0
        /\ Len(CurLine) = BUFFER_WIDTH + 1 =>
              /\ ScrollsInLine = 1
              /\ writer.column_position = 1
              /\ writer.chars[LastRow][0] =
                     ScreenChar(CurLine[BUFFER_WIDTH + 1], writer.color_code)
              /\ \A i \in 1..BUFFER_WIDTH :
                     writer.chars[LastRow - 1][i - 1] =
                         ScreenChar(CurLine[i], writer.color_code)

\* the 81st printable byte of a line has been written
C4_ExtraByteWritten ==
    /\ Initialised
    /\ AllPrintable(CurLine)
    /\ Len(CurLine) = BUFFER_WIDTH + 1
    /\ writer.new_line_calls - starts[Len(starts)] = 1

(* C5: a sequence of printable bytes shorter than BUFFER_WIDTH, written  *)
(* from column 0, stands unchanged and in order at the start of the last *)
(* row, column_position is its length, and nothing scrolled.             *)
C5_ShortLineInPlace ==
    (Initialised /\ AllPrintable(CurLine) /\ Len(CurLine) < BUFFER_WIDTH) =>
        /\ writer.column_position = Len(CurLine)
        /\ ScrollsInLine = 0
        /\ \A i \in 1..Len(CurLine) :
               writer.chars[LastRow][i - 1] = ScreenChar(CurLine[i], writer.color_code)

\* 79 printable bytes, the tilde among them, stand in the last row
C5_LongestShortLine ==
    /\ Initialised
    /\ Len(CurLine) = BUFFER_WIDTH - 1
    /\ AllPrintable(CurLine)
    /\ CurLine[1] = PRINTABLE_HI
    /\ writer.chars[LastRow][0].ascii_character = PRINTABLE_HI

(* C6: write_string stores the placeholder 0xFE, in exactly one cell,    *)
(* for every input byte that is neither printable nor the line feed, and *)
(* every cell value it brings into the grid has a character in           *)
(* 0x20..0x7E or 0xFE.                                                   *)
Glyphs == (PRINTABLE_LO..PRINTABLE_HI) \cup {PLACEHOLDER}

C6_Placeholder ==
    [][ (ByteStep /\ ~last'.raw) =>
          /\ (~Printable(last'.byte) /\ last'.byte # LF) =>
                /\ writer'.placed # <<>>
                /\ writer'.chars[writer'.placed[1]][writer'.placed[2]] =
                       ScreenChar(PLACEHOLDER, writer.color_code)
                /\ \A row \in Rows : \A col \in Cols :
                       (row # writer'.placed[1] \/ col # writer'.placed[2]) =>
                           writer'.chars[row][col] =
                               IF ~ScrollStep THEN writer.chars[row][col]
                               ELSE IF row < LastRow THEN writer.chars[row + 1][col]
                               ELSE ScreenChar(SPACE, writer.color_code)
          /\ \A row \in Rows :
                 \/ writer'.chars[row] = writer.chars[row]
                 \/ \A col \in Cols :
                        \/ writer'.chars[row][col].ascii_character \in Glyphs
                        \/ writer'.chars[row][col] = writer.chars[row][col]
                        \/ /\ row < LastRow
                           /\ writer'.chars[row][col] = writer.chars[row + 1][col] ]_vars

\* write_string met the first byte of a two-byte UTF-8 character and the
\* cell it filled holds the placeholder
C6_Substituted ==
    /\ last.n > 0
    /\ ~last.raw
    /\ last.byte = 195
    /\ writer.placed # <<>>
    /\ writer.chars[writer.placed[1]][writer.placed[2]].ascii_character = PLACEHOLDER

(* C7: a printable line s1 shorter than BUFFER_WIDTH, a line feed and a  *)
(* printable s2 shorter than BUFFER_WIDTH, written from column 0, leave  *)
(* s1 at the start of row 23 and s2 at the start of row 24; right after  *)
(* the line feed the last row is blank and column_position is 0.         *)
PrevLine == lines[Len(lines) - 1]

C7_TwoLines ==
    ( /\ Initialised
      /\ Len(lines) >= 2
      /\ AllPrintable(PrevLine) /\ Len(PrevLine) < BUFFER_WIDTH
      /\ AllPrintable(CurLine) /\ Len(CurLine) < BUFFER_WIDTH ) =>
        /\ \A i \in 1..Len(PrevLine) :
               writer.chars[LastRow - 1][i - 1].ascii_character = PrevLine[i]
        /\ \A i \in 1..Len(CurLine) :
               writer.chars[LastRow][i - 1].ascii_character = CurLine[i]
        /\ CurLine = <<>> =>
               /\ writer.column_position = 0
               /\ writer.chars[LastRow] = BlankRow(writer.color_code)

\* "HELLO\n" then "WORLD"
C7_HelloWorld ==
    /\ Initialised
    /\ Len(lines) >= 2
    /\ PrevLine = SubSeq(HELLO_LF, 1, 5)
    /\ CurLine = WORLD
    /\ writer.chars[LastRow - 1][0].ascii_character = 72
    /\ writer.chars[LastRow][4].ascii_character = 68

(* C8: no index check of the grid ever fails: every byte is stored at    *)
(* row 24 and at a column below BUFFER_WIDTH.                            *)
C8_InBounds ==
    /\ ~writer.panicked
    /\ writer.placed # <<>> =>
           /\ writer.placed[1] = LastRow
           /\ InBounds(writer.placed[1], writer.placed[2])

\* a byte arrived at a full row and was stored at column 0 after the wrap
C8_StoredAfterWrap ==
    /\ Initialised
    /\ Len(CurLine) = BUFFER_WIDTH + 1
    /\ writer.placed = <<LastRow, 0>>
    /\ ~writer.panicked

(* C9 (as amended): between operations 0 <= column_position <=           *)
(* BUFFER_WIDTH, and it equals BUFFER_WIDTH only right after a byte was  *)
(* stored in the last column.                                            *)
C9_ColumnRange ==
    Initialised =>
        /\ writer.column_position \in 0..BUFFER_WIDTH
        /\ writer.column_position = BUFFER_WIDTH <=>
               writer.placed = <<LastRow, BUFFER_WIDTH - 1>>

\* the last row is full: column_position is BUFFER_WIDTH
C9_RowFull ==
    /\ Initialised
    /\ writer.column_position = BUFFER_WIDTH
    /\ Len(CurLine) = BUFFER_WIDTH

(* C9 as stated: between operations 0 <= column_position < BUFFER_WIDTH. *)
C9_ColumnBelowWidth ==
    Initialised =>
        (0 <= writer.column_position /\ writer.column_position < BUFFER_WIDTH)

(* C10: ColorCode::new returns (background << 4) | foreground without    *)
(* overflow or truncation: the high nibble is the background code, the   *)
(* low nibble the foreground code, no other pair of colours gives the    *)
(* same byte, and (Yellow, Black) gives 0x0E.                            *)
C10_Packed ==
    packed # <<>> =>
        /\ packed[1] \in 0..(U8 - 1)
        /\ packed[1] = background * 16 + foreground
        /\ packed[1] \div 16 = background
        /\ packed[1] % 16 = foreground
        /\ \A f \in Color : \A b \in Color :
               ColorCode_new(f, b) = packed[1] => (f = foreground /\ b = background)
        /\ (foreground = Yellow /\ background = Black) => packed[1] = 14

\* a pair with both nibbles in use has been packed: (White, LightRed) is 0xCF
C10_BothNibbles ==
    /\ packed = <<207>>
    /\ foreground = 15
    /\ background = 12

(* C11: when a flow calls a print entry point while a flow it has        *)
(* interrupted holds the WRITER lock, nothing ever changes again for the *)
(* two: the inner call stays in lock(), the outer call emits no further  *)
(* byte and does not return, and the lock stays taken.                   *)
Reentered(p, q) == p < q /\ pc[p] = "write" /\ pc[q] = "lock"

C11_ReentrantDeadlock ==
    [][ \A p, q \in Flows :
            Reentered(p, q) =>
                /\ pc'[q] = "lock"
                /\ pc'[p] = "write"
                /\ msg'[p] = msg[p]
                /\ msg'[q] = msg[q]
                /\ locked'
                /\ writer' = writer ]_vars

\* a handler spins in lock() over a flow that was interrupted after its
\* first byte and still has bytes to emit
C11_HandlerSpins ==
    \E p, q \in Flows :
        /\ Reentered(p, q)
        /\ locked
        /\ last.flow = p
        /\ msg[p] # <<>>
        /\ msg[q] # <<>>

(* C12: no Writer operation reports an error: every write_str returns  *)
(* Ok, whatever the string (bytes without a glyph, a message longer than *)
(* the grid), so the unwrap in _print never panics and no index check    *)
(* fails.                                                                *)
C12_NoError ==
    /\ \A p \in Flows : fmt_result[p] = "Ok" /\ pc[p] # "panic"
    /\ ~writer.panicked

\* _print has returned after a message longer than the grid that held bytes
\* without a glyph
C12_HugePrinted ==
    /\ pc[1] = "idle"
    /\ last.n = Len(Huge)
    /\ fmt_result[1] = "Ok"
    /\ \E i \in 1..Len(Huge) : Huge[i] = 195

(* C13: the Writer is initialised exactly once, by the first flow to    *)
(* reach WRITER, to column 0 and yellow on black, also when several      *)
(* flows arrive together; nothing is written before that, and afterwards *)
(* only written bytes change the Writer, so a print call starts from the *)
(* column and grid the previous one left.                                *)
Initialisers == {p \in Flows : pc[p] = "init"}

C13_OneInitialiser ==
    /\ Cardinality(Initialisers) <= 1
    /\ (once = "running") <=> (Initialisers # {})
    /\ ~Initialised => \A p \in Flows : pc[p] \in {"idle", "deref", "init"}

C13_InitialisedOnce ==
    /\ C13_OneInitialiser
    /\ [][ /\ C13_OneInitialiser'
           /\ Initialised =>
                  /\ once' = "complete"
                  /\ ~ByteStep => writer' = writer
           /\ ~Initialised =>
                  /\ ~ByteStep
                  /\ writer'.chars = writer.chars
                  /\ once' = "complete" =>
                         /\ once = "running"
                         /\ writer'.column_position = 0
                         /\ writer'.color_code = 14
                         /\ ~locked' ]_vars

\* two flows reached WRITER together: one runs the initialiser, the other waits
C13_ConcurrentFirstAccess ==
    \E p, q \in Flows :
        /\ p # q
        /\ pc[p] = "init"
        /\ pc[q] = "deref"
        /\ once = "running"

(* C14: a print call that starts when no flow it has interrupted holds *)
(* the lock or is running the first-use initialiser terminates, unless a *)
(* flow that interrupts it spins on what it holds; the lock is free      *)
(* whenever no call is in progress.                                      *)
InCall(p) == pc[p] # "idle"

\* flow r spins on the lock that a flow it interrupted holds
SpinsOnLock(r) == pc[r] = "lock" /\ \E q \in Flows : q < r /\ pc[q] = "write"

\* flow r spins on the initialiser that a flow it interrupted is running
SpinsOnInit(r) == pc[r] = "deref" /\ \E q \in Flows : q < r /\ pc[q] = "init"

LockFreeAtRest == (\A p \in Flows : ~InCall(p)) => ~locked

RECURSIVE Joined(_, _)
\* the bytes of lines[i..], with the line feeds that separate the lines
Joined(ls, i) ==
    IF i > Len(ls) THEN <<>>
    ELSE IF i = Len(ls) THEN ls[i]
    ELSE ls[i] \o <<LF>> \o Joined(ls, i + 1)

Applied == Joined(lines, 1)

RECURSIVE WholeCalls(_)
\* bytes is a sequence of whole messages, then the sent part of the holder's
WholeCalls(bytes) ==
    \/ bytes = <<>>
    \/ \E m \in FlowMsgs :
           /\ Len(m) <= Len(bytes)
           /\ SubSeq(bytes, 1, Len(m)) = m
           /\ WholeCalls(SubSeq(bytes, Len(m) + 1, Len(bytes)))
    \/ \E p \in Holders : msg[p] # <<>> /\ bytes \o msg[p] \in FlowMsgs

\* the Writer as the initialiser leaves it, over the grid g
Fresh(g) == [UninitWriter(g) EXCEPT !.column_position = 0,
                                    !.color_code = ColorCode_new(Yellow, Black)]

C15_Serial ==
    /\ WholeCalls(Applied)
    /\ Initialised =>
          \E g \in InitGrids :
              /\ writer.chars = write_string(Fresh(g), Applied).chars
              /\ writer.column_position = write_string(Fresh(g), Applied).column_position

C15_Atomic ==
    /\ []C15_Serial
    /\ [][ (ByteStep /\ last.n > 0 /\ pc[last.flow] = "write")
               => last'.flow = last.flow ]_vars

\* a flow is inside its message while the other, which printed before, waits
C15_WaitsForWholeCall ==
    \E p, q \in Flows :
        /\ p # q
        /\ pc[p] = "write" /\ last.flow = p /\ msg[p] # <<>>
        /\ pc[q] = "lock"
        /\ calls = MaxCalls
        /\ \E m \in FlowMsgs : Len(Applied) > Len(m) /\ SubSeq(Applied, 1, Len(m)) = m

(* C16: write_byte of a byte other than line feed at a column below     *)
(* BUFFER_WIDTH changes no cell but the one at the last row and the old  *)
(* column, adds 1 to column_position and leaves color_code alone; a cell *)
(* of rows 0..23 changes only in a step that scrolls.                    *)
C16_OneCell ==
    [][ /\ ( /\ ByteStep
             /\ last'.byte # LF
             /\ writer.column_position < BUFFER_WIDTH ) =>
                /\ \A row \in Rows :
                       \/ writer'.chars[row] = writer.chars[row]
                       \/ /\ row = LastRow
                          /\ \A col \in Cols :
                                 col # writer.column_position =>
                                     writer'.chars[row][col] = writer.chars[row][col]
                /\ writer'.placed = <<LastRow, writer.column_position>>
                /\ writer'.column_position = writer.column_position + 1
                /\ writer'.color_code = writer.color_code
                /\ ~ScrollStep
        /\ (\E row \in 0..(LastRow - 1) : writer'.chars[row] # writer.chars[row])
               => ScrollStep ]_vars

\* write_byte stored a byte in the last column of the row without scrolling
C16_LastColumnFilled ==
    /\ Initialised
    /\ last.n > 0
    /\ last.raw
    /\ last.byte = 65
    /\ writer.placed = <<LastRow, BUFFER_WIDTH - 1>>
    /\ writer.column_position = BUFFER_WIDTH
    /\ ScrollsInLine = 0

(* C17: no operation of the Writer changes color_code, so it stays      *)
(* yellow on black: every cell the driver stores, a placed character or  *)
(* a blank of the cleared row, has colour byte 0x0E, and a scroll moves  *)
(* each cell up with the colour it had.                                  *)
DefaultColor == ColorCode_new(Yellow, Black)

C17_ColorKept ==
    /\ [](Initialised => writer.color_code = DefaultColor)
    /\ [][ /\ Initialised => writer'.color_code = writer.color_code
           /\ (ByteStep /\ writer'.placed # <<>>) =>
                  writer'.chars[writer'.placed[1]][writer'.placed[2]].color_code
                      = DefaultColor
           /\ ScrollStep =>
                  /\ \A row \in 1..LastRow :
                         writer'.chars[row - 1] = writer.chars[row]
                  /\ \A col \in Cols :
                         writer'.chars[LastRow][col].color_code = DefaultColor ]_vars

\* a scroll moved cells of another colour up over a blank yellow-on-black row
C17_ForeignColourMoved ==
    /\ Initialised
    /\ writer.new_line_calls = 1
    /\ last.byte = LF
    /\ writer.chars[LastRow - 1][5] = Leftover[LastRow][5]
    /\ writer.chars[LastRow - 1][5].color_code # DefaultColor
    /\ writer.chars[LastRow][5] = ScreenChar(SPACE, DefaultColor)

(* C18: grid and column depend only on the bytes printed, not on how    *)
(* they are split into calls of write_string: printing the messages in   *)
(* pieces gives what one write_string of their concatenation gives, and  *)
(* that is what write_byte gives when applied in order to each byte      *)
(* after substitution of the bytes that have no glyph.                   *)
Subst(byte) == IF Printable(byte) \/ byte = LF THEN byte ELSE PLACEHOLDER

Substituted(s) == [i \in 1..Len(s) |-> Subst(s[i])]

RECURSIVE ByteFold(_, _)
ByteFold(w, s) ==
    IF s = <<>> THEN w
    ELSE CHOOSE result \in
             {ByteFold(written, Tail(s)) :
                  written \in {write_byte(w, Head(s))}} : TRUE

SameScreen(w1, w2) ==
    w1.chars = w2.chars /\ w1.column_position = w2.column_position

C18_SplitIndependent ==
    Initialised =>
        \E g \in InitGrids :
            /\ SameScreen(writer, write_string(Fresh(g), Applied))
            /\ SameScreen(writer, ByteFold(Fresh(g), Substituted(Applied)))

\* two messages were printed: one that fills the row, one with bytes that
\* have no glyph; the second started in the middle of the first one's line
C18_TwoCallsOneLine ==
    /\ Initialised
    /\ pc[1] = "idle"
    /\ calls = 2
    /\ Applied = FullRow \o Unprintable
    /\ writer.column_position = Len(Unprintable)

(* C19: a printable line shorter than BUFFER_WIDTH that println has     *)
(* ended is, after s scrolls since it was written (its own line feed     *)
(* being the first), in row 24 - s for s = 1..24, unchanged, and after   *)
(* the 25th it is in no row; so after n printlns of one line the rows    *)
(* max(0, 24 - n)..23 hold it and the last row is blank.                 *)
\* row begins with the cells of the line, in the Writer's colour
ShowsLine(row, line) ==
    \A col \in 0..(Len(line) - 1) :
        writer.chars[row][col] = ScreenChar(line[col + 1], writer.color_code)

\* line is the beginning of other
IsPrefix(line, other) ==
    Len(line) <= Len(other) /\ SubSeq(other, 1, Len(line)) = line

\* row holds exactly the line, in the Writer's colour, then blanks
HoldsLine(row, line) ==
    \A col \in Cols :
        writer.chars[row][col] =
            IF col < Len(line)
            THEN ScreenChar(line[col + 1], writer.color_code)
            ELSE ScreenChar(SPACE, writer.color_code)

\* scrolls since line i was written, the one of its line feed included
ScrollsSince(i) == writer.new_line_calls - starts[i + 1] + 1

C19_VisibleFor24Scrolls ==
    Initialised =>
        /\ \A i \in 1..(Len(lines) - 1) :
               (AllPrintable(lines[i]) /\ Len(lines[i]) < BUFFER_WIDTH) =>
                   /\ ScrollsSince(i) >= 1
                   /\ ScrollsSince(i) <= LastRow =>
                          /\ ShowsLine(LastRow - ScrollsSince(i), lines[i])
                          /\ starts[i] > 0 =>
                                 HoldsLine(LastRow - ScrollsSince(i), lines[i])
                   /\ ( /\ ScrollsSince(i) > LastRow
                        /\ lines[i] # <<>>
                        /\ \A j \in (i + 1)..Len(lines) :
                               ~IsPrefix(lines[i], lines[j]) ) =>
                          \A row \in Rows : ~ShowsLine(row, lines[i])
        /\ (Len(lines) > 1 /\ CurLine = <<>>) => HoldsLine(LastRow, <<>>)

\* HELLO was printed, then the same line 25 times: HELLO has left the grid,
\* every row but the last holds the repeated line
C19_HelloScrolledOut ==
    /\ Initialised
    /\ pc[1] = "idle"
    /\ Len(lines) = MaxManyCalls + 1
    /\ lines[1] = SubSeq(HELLO_LF, 1, Len(HELLO_LF) - 1)
    /\ ScrollsSince(1) = BUFFER_HEIGHT + 1
    /\ \A row \in 0..(LastRow - 1) : HoldsLine(row, lines[Len(lines) - 1])
    /\ HoldsLine(LastRow, <<>>)

====
